---- MODULE Spec2Model ----
(***************************************************************************)
(* Model of the crop_coefficients crate: the GDD calculator (gdd.rs), the  *)
(* GDD-indexed stage model (kc_gdd.rs) and the day-indexed stage model     *)
(* (kcc_gs.rs).                                                            *)
(*                                                                         *)
(* f32 values are modelled as exact rationals n/d (d > 0, lowest terms)    *)
(* together with the IEEE special values NaN, +Inf and -Inf, so that the   *)
(* float divisions by zero of the code produce what the hardware produces. *)
(* u16 values keep their width: a subtraction that leaves 0..65535 panics  *)
(* in a build with overflow checks and wraps modulo 2^16 in one without.   *)
(***************************************************************************)
EXTENDS Integers, Sequences, FiniteSets, TLC

VARIABLES cc, call, ret

vars == <<cc, call, ret>>

\* ------------------------------------------------------------------ bounds
\* Largest stage threshold (days or cumulative GDD) of a profile.
MaxThreshold == 3

\* ------------------------------------------------------- rational "floats"
Abs(x) == IF x < 0 THEN -x ELSE x

RECURSIVE GCD(_, _)
GCD(a, b) == IF b = 0 THEN a ELSE GCD(b, a % b)

\* The finite value n/d (d > 0) in lowest terms.
Fin(n, d) ==
    LET g == GCD(Abs(n), d)
    IN  [k |-> "fin", n |-> n \div g, d |-> d \div g]

LCM(a, b) == (a \div GCD(a, b)) * b

NaN == [k |-> "nan", n |-> 0, d |-> 1]
Inf(s) == [k |-> "inf", n |-> s, d |-> 1]
Int2F(i) == Fin(i, 1)

Sgn(x) == IF x.n > 0 THEN 1 ELSE IF x.n < 0 THEN -1 ELSE 0

FNeg(x) == [x EXCEPT !.n = -x.n]

FAdd(a, b) ==
    IF a.k = "nan" \/ b.k = "nan" THEN NaN
    ELSE IF a.k = "inf" THEN (IF b.k = "inf" /\ b.n # a.n THEN NaN ELSE a)
    ELSE IF b.k = "inf" THEN b
    ELSE LET l == LCM(a.d, b.d)
         IN  Fin(a.n * (l \div a.d) + b.n * (l \div b.d), l)

FSub(a, b) == FAdd(a, FNeg(b))

FMul(a, b) ==
    IF a.k = "nan" \/ b.k = "nan" THEN NaN
    ELSE IF a.k = "inf" \/ b.k = "inf"
         THEN (IF Sgn(a) * Sgn(b) = 0 THEN NaN ELSE Inf(Sgn(a) * Sgn(b)))
    ELSE LET g1 == GCD(Abs(a.n), b.d)
             g2 == GCD(Abs(b.n), a.d)
         IN  Fin((a.n \div g1) * (b.n \div g2), (a.d \div g2) * (b.d \div g1))

\* IEEE division; a finite zero divisor is +0.0 (x - x in round-to-nearest).
FDiv(a, b) ==
    IF a.k = "nan" \/ b.k = "nan" THEN NaN
    ELSE IF a.k = "inf"
         THEN (IF b.k = "inf" THEN NaN ELSE Inf(IF Sgn(b) < 0 THEN -a.n ELSE a.n))
    ELSE IF b.k = "inf" THEN Fin(0, 1)
    ELSE IF b.n = 0 THEN (IF a.n = 0 THEN NaN ELSE Inf(Sgn(a)))
    ELSE FMul(a, Fin(b.d * Sgn(b), Abs(b.n)))

\* a < b, false when either is NaN.
FLt(a, b) ==
    IF a.k = "nan" \/ b.k = "nan" THEN FALSE
    ELSE IF a.k = "inf" THEN a.n < 0 /\ ~(b.k = "inf" /\ b.n < 0)
    ELSE IF b.k = "inf" THEN b.n > 0
    ELSE LET l == LCM(a.d, b.d)
         IN  a.n * (l \div a.d) < b.n * (l \div b.d)

FEq(a, b) == a.k # "nan" /\ b.k # "nan" /\ a = b
FLe(a, b) == FLt(a, b) \/ FEq(a, b)
FGt(a, b) == FLt(b, a)

\* f32::max and f32::min (a NaN operand yields the other operand).
FMax(a, b) == IF a.k = "nan" THEN b ELSE IF b.k = "nan" THEN a
              ELSE IF FLt(a, b) THEN b ELSE a
FMin(a, b) == IF a.k = "nan" THEN b ELSE IF b.k = "nan" THEN a
              ELSE IF FLt(b, a) THEN b ELSE a

\* f32::round: to the nearest integer, halves away from zero.
FRound(x) ==
    IF x.k # "fin" THEN x
    ELSE LET m == (2 * Abs(x.n) + x.d) \div (2 * x.d)
         IN  Fin(Sgn(x) * m, 1)

\* ----------------------------------------------------------- gdd.rs
\* calculate_gdd without the raise of an inverted maximum.
calculate_gdd_no_raise(max_temp, min_temp, base_temp) ==
    LET max1 == FMin(FMax(max_temp, Int2F(0)), Int2F(30))
        min1 == FMin(FMax(min_temp, Int2F(-5)), Int2F(30))
        base1 == FMax(base_temp, Int2F(0))
        avg_temp == FDiv(FAdd(max1, min1), Int2F(2))
    IN  IF FLe(avg_temp, base1) THEN Int2F(0) ELSE FSub(avg_temp, base1)

\* calculate_gdd without the test avg_temp <= base_temp.
calculate_gdd_no_floor(max_temp, min_temp, base_temp) ==
    LET max1 == FMin(FMax(max_temp, Int2F(0)), Int2F(30))
        min1 == FMin(FMax(min_temp, Int2F(-5)), Int2F(30))
        base1 == FMax(base_temp, Int2F(0))
        max2 == FMax(max1, min1)
        avg_temp == FDiv(FAdd(max2, min1), Int2F(2))
    IN  FSub(avg_temp, base1)

calculate_gdd(max_temp, min_temp, base_temp) ==
    LET max1 == FMin(FMax(max_temp, Int2F(0)), Int2F(30))
        min1 == FMin(FMax(min_temp, Int2F(-5)), Int2F(30))
        base1 == FMax(base_temp, Int2F(0))
        max2 == FMax(max1, min1)
        avg_temp == FDiv(FAdd(max2, min1), Int2F(2))
    IN  IF FLe(avg_temp, base1) THEN Int2F(0) ELSE FSub(avg_temp, base1)

\* ----------------------------------------------------------- kc_gdd.rs
\* Option<f32>: None, or the value itself.
NoneF == [k |-> "none", n |-> 0, d |-> 1]
UnwrapOr(o, dflt) == IF o.k = "none" THEN dflt ELSE o

\* f32::powf(x, 0.3) on the bases (crop_height / 3.0) the model evaluates.
\* 0, 1 are exact; (1.391/3)^0.3 and (0.4/3)^0.3 are irrational and are
\* given to four decimal places.  A negative base yields NaN.
Powf03(x) ==
    CASE x.k = "nan" -> NaN
      [] x.k = "inf" -> (IF x.n > 0 THEN x ELSE NaN)
      [] x.k = "fin" /\ x.n < 0 -> NaN
      [] x.k = "fin" /\ x.n = 0 -> Fin(0, 1)
      [] x = Fin(1, 1) -> Fin(1, 1)
      [] x = Fin(1391, 3000) -> Fin(7941, 10000)
      [] x = Fin(4, 30) -> Fin(5464, 10000)

\* adjust_kc with the wind term not centred on 2 m/s.
adjust_kc_wind_uncentred(kc_original, wind_speed, rh_min, crop_height) ==
    LET term1 == FMul(Fin(4, 100), wind_speed)
        term2 == FMul(Fin(4, 10000), FSub(rh_min, Int2F(45)))
        adjustment == FMul(FSub(term1, term2), Powf03(FDiv(crop_height, Int2F(3))))
    IN  FAdd(kc_original, adjustment)

adjust_kc(kc_original, wind_speed, rh_min, crop_height) ==
    LET term1 == FMul(Fin(4, 100), FSub(wind_speed, Int2F(2)))
        term2 == FMul(Fin(4, 10000), FSub(rh_min, Int2F(45)))
        adjustment == FMul(FSub(term1, term2), Powf03(FDiv(crop_height, Int2F(3))))
    IN  FAdd(kc_original, adjustment)

\* Result of a call: a return value, or a panic.  stage is the branch the
\* call took, kc_org the Kc it computed before any adjustment (the local
\* kc_org of the code) and adjusted whether it went through adjust_kc.
Returned(name, kc, stage, kc_org, adjusted) ==
    [status |-> "ok", name |-> name, kc |-> kc, stage |-> stage,
     kc_org |-> kc_org, adjusted |-> adjusted]
Panicked(stage) ==
    [status |-> "panic", name |-> "", kc |-> NaN, stage |-> stage,
     kc_org |-> NaN, adjusted |-> FALSE]
NoRet ==
    [status |-> "none", name |-> "", kc |-> NaN, stage |-> "none",
     kc_org |-> NaN, adjusted |-> FALSE]

NoProfile == [kind |-> "none"]

\* CropCoefficientsGdd::new without the check of the thresholds' sign.
CropCoefficientsGdd_new_no_sign_check(crop_name, initial_end_kc, development_end_kc, mid_end_kc, late_end_kc) ==
    IF \/ FGt(initial_end_kc[2], Int2F(2)) \/ FGt(development_end_kc[2], Int2F(2))
       \/ FGt(mid_end_kc[2], Int2F(2)) \/ FGt(late_end_kc[2], Int2F(2))
    THEN NoProfile
    ELSE [kind |-> "gdd", crop_name |-> crop_name,
          initial_end_kc |-> initial_end_kc, development_end_kc |-> development_end_kc,
          mid_end_kc |-> mid_end_kc, late_end_kc |-> late_end_kc]

\* CropCoefficientsGdd::new: each stage is a pair <<threshold, kc>>.
CropCoefficientsGdd_new(crop_name, initial_end_kc, development_end_kc, mid_end_kc, late_end_kc) ==
    IF \/ FLt(initial_end_kc[1], Int2F(0)) \/ FLt(development_end_kc[1], Int2F(0))
       \/ FLt(mid_end_kc[1], Int2F(0)) \/ FLt(late_end_kc[1], Int2F(0))
    THEN NoProfile
    ELSE IF \/ FGt(initial_end_kc[2], Int2F(2)) \/ FGt(development_end_kc[2], Int2F(2))
            \/ FGt(mid_end_kc[2], Int2F(2)) \/ FGt(late_end_kc[2], Int2F(2))
    THEN NoProfile
    ELSE [kind |-> "gdd", crop_name |-> crop_name,
          initial_end_kc |-> initial_end_kc, development_end_kc |-> development_end_kc,
          mid_end_kc |-> mid_end_kc, late_end_kc |-> late_end_kc]

\* rh_min *= 100.0 when rh_min < 1.0
NormalizeRh(rh_min) == IF FLt(rh_min, Int2F(1)) THEN FMul(rh_min, Int2F(100)) ELSE rh_min

\* (x * 100.0) / 100.0
Times100Div100(x) == FDiv(FMul(x, Int2F(100)), Int2F(100))
\* (x * 100.0).round() / 100.0
Round2(x) == FDiv(FRound(FMul(x, Int2F(100))), Int2F(100))

\* The late-stage branch decides on kc_org > 0.45 whether to adjust.
LateAdjusts(kc_org) == FGt(kc_org, Fin(45, 100))

\* from.kc + (to.kc - from.kc) * ((x - from.t) / (to.t - from.t)),
\* the interpolation of the development and of the mid-season stage.
GddInterpolate(x, from, to) ==
    FAdd(from[2], FMul(FSub(to[2], from[2]),
                       FDiv(FSub(x, from[1]), FSub(to[1], from[1]))))

\* The same with the stage's start as the anchor of the late stage too.
GddLateKc_from_mid(x, mid, late) ==
    FSub(mid[2], FMul(FSub(mid[2], late[2]),
                      FDiv(FSub(x, mid[1]), FSub(late[1], mid[1]))))

\* mid.kc - (mid.kc - late.kc) * ((x - late.t) / (mid.t - late.t))
GddLateKc(x, mid, late) ==
    FSub(mid[2], FMul(FSub(mid[2], late[2]),
                      FDiv(FSub(x, late[1]), FSub(mid[1], late[1]))))

crop_coefficient_gdd(cumulative_gdd, c, wind_speed_o, rh_min_o, crop_height_o) ==
    LET wind_speed == UnwrapOr(wind_speed_o, Int2F(2))
        rh_min == NormalizeRh(UnwrapOr(rh_min_o, Int2F(45)))
        crop_height == UnwrapOr(crop_height_o, Fin(1391, 1000))
    IN  IF FLe(cumulative_gdd, c.initial_end_kc[1])
        THEN Returned(c.crop_name, Round2(c.initial_end_kc[2]), "Initial",
                      c.initial_end_kc[2], FALSE)
        ELSE IF FLe(cumulative_gdd, c.development_end_kc[1])
        THEN LET kc_org == GddInterpolate(cumulative_gdd, c.initial_end_kc, c.development_end_kc)
             IN  Returned(c.crop_name, Times100Div100(kc_org), "Development", kc_org, FALSE)
        ELSE IF FLe(cumulative_gdd, c.mid_end_kc[1])
        THEN LET kc_org == GddInterpolate(cumulative_gdd, c.development_end_kc, c.mid_end_kc)
             IN  Returned(c.crop_name,
                     Times100Div100(adjust_kc(kc_org, wind_speed, rh_min, crop_height)),
                     "Mid", kc_org, TRUE)
        ELSE LET kc_org == GddLateKc(cumulative_gdd, c.mid_end_kc, c.late_end_kc)
             IN  IF LateAdjusts(kc_org)
                 THEN Returned(c.crop_name,
                          Times100Div100(adjust_kc(kc_org, wind_speed, rh_min, crop_height)),
                          "Late", kc_org, TRUE)
                 ELSE Returned(c.crop_name, Times100Div100(kc_org), "Late", kc_org, FALSE)

\* ----------------------------------------------------------- kcc_gs.rs
TwoPow16 == 65536

\* i64 as u16
AsU16(i) == i % TwoPow16

\* u16 - u16: panics with overflow checks (b = "debug"), wraps without.
U16Sub(b, x, y) ==
    IF x >= y THEN [ok |-> TRUE, v |-> x - y]
    ELSE IF b = "debug" THEN [ok |-> FALSE, v |-> 0]
    ELSE [ok |-> TRUE, v |-> x - y + TwoPow16]

\* u16 / u16: panics on a zero divisor in every build.
U16Div(x, y) ==
    IF y = 0 THEN [ok |-> FALSE, v |-> 0] ELSE [ok |-> TRUE, v |-> x \div y]

KcStage_new(days, kc) == [days |-> days, kc |-> kc]

\* CropCoefficientsGs::new with the check of the late stage's Kc left out.
CropCoefficientsGs_new_no_late_check(crop_name, initial_end_kc, development_end_kc, mid_end_kc, late_end_kc, planting_date, crop_height) ==
    IF \/ FGt(initial_end_kc[2], Int2F(2)) \/ FGt(development_end_kc[2], Int2F(2))
       \/ FGt(mid_end_kc[2], Int2F(2))
    THEN NoProfile
    ELSE [kind |-> "gs", crop_name |-> crop_name,
          initial_end_kc |-> KcStage_new(initial_end_kc[1], initial_end_kc[2]),
          development_end_kc |-> KcStage_new(development_end_kc[1], development_end_kc[2]),
          mid_end_kc |-> KcStage_new(mid_end_kc[1], mid_end_kc[2]),
          late_end_kc |-> KcStage_new(late_end_kc[1], late_end_kc[2]),
          planting_date |-> planting_date, crop_height |-> crop_height]

\* CropCoefficientsGs::new: each stage is a pair <<days, kc>>, days a u16.
CropCoefficientsGs_new(crop_name, initial_end_kc, development_end_kc, mid_end_kc, late_end_kc, planting_date, crop_height) ==
    IF \/ FGt(initial_end_kc[2], Int2F(2)) \/ FGt(development_end_kc[2], Int2F(2))
       \/ FGt(mid_end_kc[2], Int2F(2)) \/ FGt(late_end_kc[2], Int2F(2))
    THEN NoProfile
    ELSE [kind |-> "gs", crop_name |-> crop_name,
          initial_end_kc |-> KcStage_new(initial_end_kc[1], initial_end_kc[2]),
          development_end_kc |-> KcStage_new(development_end_kc[1], development_end_kc[2]),
          mid_end_kc |-> KcStage_new(mid_end_kc[1], mid_end_kc[2]),
          late_end_kc |-> KcStage_new(late_end_kc[1], late_end_kc[2]),
          planting_date |-> planting_date, crop_height |-> crop_height]

determine_growth_stage(self, days_since_planting) ==
    IF days_since_planting <= self.initial_end_kc.days THEN "Initial"
    ELSE IF days_since_planting <= self.development_end_kc.days THEN "Development"
    ELSE IF days_since_planting <= self.mid_end_kc.days THEN "Mid"
    ELSE "Late"

\* Dates are day numbers; signed_duration_since(..).num_days() is their difference.
\* Stage Kc of coefficient_from_date before the adjustment: [ok, kc].
FromDateStageKc(b, self, growth_stage, days_since_planting) ==
    CASE growth_stage = "Initial" -> [ok |-> TRUE, kc |-> self.initial_end_kc.kc]
      [] growth_stage = "Development" ->
            LET days_into == days_since_planting - self.initial_end_kc.days
                len == U16Sub(b, self.development_end_kc.days, self.initial_end_kc.days)
            IN  IF ~len.ok THEN [ok |-> FALSE, kc |-> NaN]
                ELSE IF len.v = 0 THEN [ok |-> TRUE, kc |-> self.development_end_kc.kc]
                ELSE [ok |-> TRUE, kc |->
                        FAdd(self.initial_end_kc.kc,
                             FMul(FSub(self.development_end_kc.kc, self.initial_end_kc.kc),
                                  FDiv(Int2F(days_into), Int2F(len.v))))]
      [] growth_stage = "Mid" -> [ok |-> TRUE, kc |-> self.mid_end_kc.kc]
      [] growth_stage = "Late" ->
            LET days_into == days_since_planting - self.mid_end_kc.days
                len == U16Sub(b, self.late_end_kc.days, self.mid_end_kc.days)
            IN  IF ~len.ok THEN [ok |-> FALSE, kc |-> NaN]
                ELSE IF len.v = 0 THEN [ok |-> TRUE, kc |-> self.late_end_kc.kc]
                ELSE [ok |-> TRUE, kc |->
                        FAdd(self.mid_end_kc.kc,
                             FMul(FSub(self.late_end_kc.kc, self.mid_end_kc.kc),
                                  FDiv(Int2F(days_into), Int2F(len.v))))]

coefficient_from_date(b, self, date, wind_speed_o, rh_min_o, crop_height_o) ==
    LET days_since_planting == date - self.planting_date
        growth_stage == determine_growth_stage(self, days_since_planting)
        kc0 == FromDateStageKc(b, self, growth_stage, days_since_planting)
    IN  IF ~kc0.ok THEN Panicked(growth_stage)
        ELSE IF growth_stage \in {"Mid", "Late"}
        THEN LET wind_speed == UnwrapOr(wind_speed_o, Int2F(2))
                 rh_min == UnwrapOr(rh_min_o, Int2F(45))
                 crop_height == UnwrapOr(crop_height_o, Fin(4, 10))
             IN  Returned("", adjust_kc(kc0.kc, wind_speed, rh_min, crop_height),
                          growth_stage, kc0.kc, TRUE)
        ELSE Returned("", kc0.kc, growth_stage, kc0.kc, FALSE)

\* ((x - from) / (to - from)) as f32 in u16 arithmetic: [ok, v].
U16Ratio(b, x, from, to) ==
    LET num == U16Sub(b, x, from)
        den == U16Sub(b, to, from)
    IN  IF ~num.ok \/ ~den.ok THEN [ok |-> FALSE, v |-> 0]
        ELSE U16Div(num.v, den.v)

\* The late-stage branch of crop_coefficient_gs decides on kc_org > 0.45.
GsLateAdjusts(kc_org) == FGt(kc_org, Fin(45, 100))

crop_coefficient_gs(b, planting_date, date, c, wind_speed_o, rh_min_o, crop_height_o) ==
    LET wind_speed == UnwrapOr(wind_speed_o, Int2F(2))
        crop_height == UnwrapOr(crop_height_o, Fin(1391, 1000))
        days_since_planting == AsU16(date - planting_date)
        rh_min == NormalizeRh(UnwrapOr(rh_min_o, Int2F(45)))
        ti == c.initial_end_kc.days
        ki == c.initial_end_kc.kc
        td == c.development_end_kc.days
        kd == c.development_end_kc.kc
        tm == c.mid_end_kc.days
        km == c.mid_end_kc.kc
        tl == c.late_end_kc.days
        kl == c.late_end_kc.kc
    IN  IF days_since_planting <= ti
        THEN Returned(c.crop_name, Round2(ki), "Initial", ki, FALSE)
        ELSE IF days_since_planting <= td
        THEN LET r == U16Ratio(b, days_since_planting, ti, td)
             IN  IF ~r.ok THEN Panicked("Development")
                 ELSE LET kc_org == FAdd(ki, FMul(FSub(kd, ki), Int2F(r.v)))
                      IN  Returned(c.crop_name, Times100Div100(kc_org),
                                   "Development", kc_org, FALSE)
        ELSE IF days_since_planting <= tm
        THEN LET r == U16Ratio(b, days_since_planting, td, tm)
             IN  IF ~r.ok THEN Panicked("Mid")
                 ELSE LET kc_org == FAdd(kd, FMul(FSub(km, kd), Int2F(r.v)))
                      IN  Returned(c.crop_name,
                              Times100Div100(adjust_kc(kc_org, wind_speed, rh_min, crop_height)),
                              "Mid", kc_org, TRUE)
        ELSE LET r == U16Ratio(b, days_since_planting, tl, tm)
             IN  IF ~r.ok THEN Panicked("Late")
                 ELSE LET kc_org == FSub(km, FMul(FSub(km, kl), Int2F(r.v)))
                      IN  IF GsLateAdjusts(kc_org)
                          THEN Returned(c.crop_name,
                                   Times100Div100(adjust_kc(kc_org, wind_speed, rh_min, crop_height)),
                                   "Late", kc_org, TRUE)
                          ELSE Returned(c.crop_name, Times100Div100(kc_org),
                                        "Late", kc_org, FALSE)

\* ------------------------------------------------------------ the inputs
CropNames == {"corn"}

\* Stage Kc values handed to the constructors: 0.305, 2.0 and 2.1.
KcVals == {Fin(305, 1000), Int2F(2), Fin(21, 10)}

NonDecreasing(t) == t[1] <= t[2] /\ t[2] <= t[3] /\ t[3] <= t[4]

\* Cumulative day thresholds (u16), stage after stage.
DayThresholds == {t \in [1..4 -> 0..MaxThreshold] : NonDecreasing(t)}
\* Cumulative GDD thresholds (f32), a negative one included.
GddThresholds == {t \in [1..4 -> -1..MaxThreshold] : NonDecreasing(t)}

KcTuples == [1..4 -> KcVals]

\* Positions: cumulative GDD, and calendar days.
GddPositions == -1..(MaxThreshold + 1)
\* The planting date passed to crop_coefficient_gs, and the one a profile holds.
PlantingDates == {1, 2}
ProfilePlantingDates == {1}
Dates == 0..(MaxThreshold + 2)
ProfileHeights == {Int2F(3)}

WindSpeeds == {NoneF, Int2F(3)}
RhMins == {NoneF, Fin(3, 10), Int2F(30), Int2F(45)}
CropHeights == {NoneF, Int2F(3)}

Temps == {-10, -5, 0, 5, 10, 15, 25, 30, 31, 1000000}
BaseTemps == {-1, 0, 5, 10}

\* overflow-checks of the build: on ("debug") or off ("release").
Builds == {"debug", "release"}

\* ------------------------------------------------------ the state machine
\* Every operation is a pure function of its arguments, so a run is one
\* construction followed by one call on the profile, or one call of calculate_gdd.
Init ==
    /\ cc = NoProfile
    /\ call = [op |-> "none"]
    /\ ret = NoRet

NewGdd ==
    /\ call.op = "none"
    /\ \E name \in CropNames, t \in GddThresholds, kc \in KcTuples :
        LET p == CropCoefficientsGdd_new(name, <<Int2F(t[1]), kc[1]>>, <<Int2F(t[2]), kc[2]>>,
                                         <<Int2F(t[3]), kc[3]>>, <<Int2F(t[4]), kc[4]>>)
        IN  /\ call' = [op |-> "CropCoefficientsGdd::new", crop_name |-> name, t |-> t, kc |-> kc]
            /\ cc' = p
            /\ ret' = IF p = NoProfile THEN Panicked("new") ELSE NoRet

NewGs ==
    /\ call.op = "none"
    /\ \E name \in CropNames, t \in DayThresholds, kc \in KcTuples,
          planting_date \in ProfilePlantingDates, crop_height \in ProfileHeights :
        LET p == CropCoefficientsGs_new(name, <<t[1], kc[1]>>, <<t[2], kc[2]>>,
                                        <<t[3], kc[3]>>, <<t[4], kc[4]>>,
                                        planting_date, crop_height)
        IN  /\ call' = [op |-> "CropCoefficientsGs::new", crop_name |-> name, t |-> t, kc |-> kc]
            /\ cc' = p
            /\ ret' = IF p = NoProfile THEN Panicked("new") ELSE NoRet

\* crop_coefficient_gdd takes the profile by value: the caller's is moved into the call.
CropCoefficientGdd ==
    /\ cc.kind = "gdd"
    /\ ret = NoRet
    /\ \E pos \in GddPositions, w \in WindSpeeds, rh \in RhMins, h \in CropHeights :
        /\ call' = [op |-> "crop_coefficient_gdd", pos |-> pos, cc |-> cc,
                    wind_speed |-> w, rh_min |-> rh, crop_height |-> h]
        /\ ret' = crop_coefficient_gdd(Int2F(pos), cc, w, rh, h)
        /\ cc' = NoProfile

\* crop_coefficient_gs takes the profile by value too.
CropCoefficientGs ==
    /\ cc.kind = "gs"
    /\ ret = NoRet
    /\ \E b \in Builds, planting_date \in PlantingDates, date \in Dates,
          w \in WindSpeeds, rh \in RhMins, h \in CropHeights :
        /\ call' = [op |-> "crop_coefficient_gs",
                    planting_date |-> planting_date, date |-> date, cc |-> cc,
                    wind_speed |-> w, rh_min |-> rh, crop_height |-> h]
        /\ ret' = crop_coefficient_gs(b, planting_date, date, cc, w, rh, h)
        /\ cc' = NoProfile

\* coefficient_from_date borrows the profile.
CoefficientFromDate ==
    /\ cc.kind = "gs"
    /\ ret = NoRet
    /\ \E b \in Builds, date \in Dates, w \in WindSpeeds, rh \in RhMins, h \in CropHeights :
        /\ call' = [op |-> "coefficient_from_date", date |-> date, cc |-> cc,
                    wind_speed |-> w, rh_min |-> rh, crop_height |-> h]
        /\ ret' = coefficient_from_date(b, cc, date, w, rh, h)
        /\ UNCHANGED cc

CalculateGdd ==
    /\ call.op = "none"
    /\ \E max_temp \in Temps, min_temp \in Temps, base_temp \in BaseTemps :
        /\ call' = [op |-> "calculate_gdd", max_temp |-> max_temp, min_temp |-> min_temp,
                    base_temp |-> base_temp]
        /\ ret' = LET gdd == calculate_gdd(Int2F(max_temp), Int2F(min_temp), Int2F(base_temp))
                   IN  Returned("", gdd, "none", gdd, FALSE)
        /\ UNCHANGED cc

\* ------------------------------------------------ load_crop_coefficients
\* An entry of the crops table of fao56.toml (struct Crop).  The file is not
\* part of the source: its content is an input.  k_ini, k_mid, k_end are
\* f64 narrowed to f32; stage lengths stay far below the i32 range.
Crop(name, k, growth_stages_days) ==
    [name |-> name, k_ini |-> k[1], k_mid |-> k[2], k_end |-> k[3],
     height_m |-> Int2F(3), growth_stages_days |-> growth_stages_days,
     planting_date |-> 1]

\* The keys of the crops table, and the names the entries carry.
TableKeys == {"corn", "maize"}
EntryNames == {"corn", "wheat"}
\* (k_ini, k_mid, k_end): the corn of the repository's test, and a k_mid of 2.1.
EntryKc == {<<Fin(3, 10), Fin(12, 10), Fin(6, 10)>>, <<Fin(3, 10), Fin(21, 10), Fin(6, 10)>>}
\* growth_stages_days (Vec<i32>): the test's corn, zero-length stages, a
\* negative length, a sum past u16::MAX, and a vector of three.
StageDays == {<<20, 30, 50, 20>>, <<0, 1, 0, 2>>, <<-1, 1, 1, 1>>, <<65535, 1, 0, 0>>, <<1, 2, 3>>}
Crops == {Crop(n, k, d) : n \in EntryNames, k \in EntryKc, d \in StageDays}
\* What fs::read_to_string and toml::from_str yield: an error, or the table.
CropKcData ==
    {[readable |-> FALSE, crops |-> <<>>]} \cup
    {[readable |-> TRUE, crops |-> f] : f \in UNION {[K -> Crops] : K \in SUBSET TableKeys}}

\* The closure mapped over the entries: cumulative days cast to u16, then
\* CropCoefficientsGs::new.  Indexing past the vector's end panics.
LoadedProfile(crop) ==
    LET d == crop.growth_stages_days
    IN  IF Len(d) < 4 THEN NoProfile
        ELSE CropCoefficientsGs_new(crop.name,
                 <<AsU16(d[1]), crop.k_ini>>,
                 <<AsU16(d[1] + d[2]), crop.k_mid>>,
                 <<AsU16(d[1] + d[2] + d[3]), crop.k_mid>>,
                 <<AsU16(d[1] + d[2] + d[3] + d[4]), crop.k_end>>,
                 crop.planting_date, crop.height_m)

\* load_crop_coefficients: the profiles are collected into a map keyed by
\* crop.name; last[n] is the table key of the entry inserted last under n.
load_crop_coefficients(data, last) ==
    IF ~data.readable THEN [status |-> "err", profiles |-> <<>>]
    ELSE IF \E key \in DOMAIN data.crops : LoadedProfile(data.crops[key]) = NoProfile
    THEN [status |-> "panic", profiles |-> <<>>]
    ELSE [status |-> "ok",
          profiles |-> [n \in DOMAIN last |-> LoadedProfile(data.crops[last[n]])]]

\* The table is iterated in the HashMap's arbitrary order, so among the
\* entries of one name any can be the one inserted last.
LoadCropCoefficients ==
    /\ call.op = "none"
    /\ \E data \in CropKcData :
        LET names == {data.crops[key].name : key \in DOMAIN data.crops}
        IN  \E last \in [names -> DOMAIN data.crops] :
                /\ \A n \in names : data.crops[last[n]].name = n
                /\ call' = [op |-> "load_crop_coefficients", data |-> data]
                /\ ret' = load_crop_coefficients(data, last)
                /\ UNCHANGED cc

Next ==
    \/ LoadCropCoefficients
    \/ NewGdd
    \/ NewGs
    \/ CropCoefficientGdd
    \/ CropCoefficientGs
    \/ CoefficientFromDate
    \/ CalculateGdd

Spec == Init /\ [][Next]_vars

\* ------------------------------------------------- reading a call's state
IsGdd == call.op = "crop_coefficient_gdd"
IsGs == call.op = "crop_coefficient_gs"
IsFromDate == call.op = "coefficient_from_date"
Evaluated == IsGdd \/ IsGs \/ IsFromDate

\* The four thresholds and the four stage Kc of a profile.
Thresholds(c) ==
    IF c.kind = "gdd"
    THEN <<c.initial_end_kc[1].n, c.development_end_kc[1].n, c.mid_end_kc[1].n, c.late_end_kc[1].n>>
    ELSE <<c.initial_end_kc.days, c.development_end_kc.days, c.mid_end_kc.days, c.late_end_kc.days>>
StageKc(c) ==
    IF c.kind = "gdd"
    THEN <<c.initial_end_kc[2], c.development_end_kc[2], c.mid_end_kc[2], c.late_end_kc[2]>>
    ELSE <<c.initial_end_kc.kc, c.development_end_kc.kc, c.mid_end_kc.kc, c.late_end_kc.kc>>

StrictlyIncreasing(t) == t[1] < t[2] /\ t[2] < t[3] /\ t[3] < t[4]

\* The position a call evaluates: cumulative GDD, or days from planting to the date.
Position ==
    IF IsGdd THEN call.pos
    ELSE IF IsGs THEN call.date - call.planting_date
    ELSE call.date - call.cc.planting_date

RefWind == call.wind_speed = NoneF \/ call.wind_speed = Int2F(2)
RefRh == call.rh_min = NoneF \/ call.rh_min = Int2F(45)

\* The value at x of the line through (x0, y0) and (x1, y1).
TwoPoint(x, x0, y0, x1, y1) ==
    FDiv(FAdd(FMul(y0, Int2F(x1 - x)), FMul(y1, Int2F(x - x0))), Int2F(x1 - x0))

\* x to the nearest hundredth, a tie going away from zero.
NearestHundredth(x) ==
    LET y == FMul(x, Int2F(100))
        Near(h) == 2 * Abs(y.n - h * y.d) <= y.d
        h0 == CHOOSE h \in -300..300 :
                 Near(h) /\ \A g \in -300..300 : Near(g) => Abs(g) <= Abs(h)
    IN  Fin(h0, 100)

\* The stage of the spec's table for position p against thresholds t.
TableStage(p, t) ==
    IF p <= t[1] THEN "Initial"
    ELSE IF p <= t[2] THEN "Development"
    ELSE IF p <= t[3] THEN "Mid"
    ELSE "Late"

\* The Kc of the claim's four formulas, with initial_kc for the initial stage.
C1_Expected(initial_kc) ==
    LET t == Thresholds(call.cc)
        kc == StageKc(call.cc)
        p == call.pos
    IN  IF p <= t[1] THEN initial_kc
        ELSE IF p <= t[2] THEN TwoPoint(p, t[1], kc[1], t[2], kc[2])
        ELSE IF p <= t[3] THEN TwoPoint(p, t[2], kc[2], t[3], kc[3])
        ELSE TwoPoint(p, t[4], kc[3], t[3], kc[4])

C1_Case == IsGdd /\ StrictlyIncreasing(Thresholds(call.cc)) /\ RefWind /\ RefRh

C2_SameStage ==
    Evaluated =>
        /\ ret.stage = TableStage(Position, Thresholds(call.cc))
        /\ call.cc.kind = "gs" => ret.stage = determine_growth_stage(call.cc, Position)

\* C3: with non-decreasing thresholds every evaluation returns a result.
C3_NeverFails ==
    (Evaluated /\ NonDecreasing(Thresholds(call.cc))) => ret.status = "ok"

IsNew == call.op \in {"CropCoefficientsGdd::new", "CropCoefficientsGs::new"}
ExceedsTwo(kc) == kc.n > 2 * kc.d

\* C4: a constructor aborts whenever a stage Kc exceeds 2.0, a Kc of exactly 2.0
\* does not make it abort, and every profile it returns has Kc <= 2.0 in all stages.
C4_KcLimit ==
    /\ IsNew =>
        /\ (\E i \in 1..4 : ExceedsTwo(call.kc[i])) => (ret.status = "panic" /\ cc = NoProfile)
        /\ (/\ \A i \in 1..4 : ~ExceedsTwo(call.kc[i])
            /\ \A i \in 1..4 : call.t[i] >= 0)
           => (ret.status # "panic" /\ cc.kind # "none" /\ StageKc(cc) = call.kc)
    /\ cc.kind # "none" => \A i \in 1..4 : ~ExceedsTwo(StageKc(cc)[i])

C4_Witness ==
    /\ call.op = "CropCoefficientsGs::new"
    /\ ExceedsTwo(call.kc[4])
    /\ \A i \in 1..3 : call.kc[i] = Int2F(2)
    /\ ret.status = "panic"

\* C5: in the late stage of every evaluator the adjustment is applied exactly
\* when the late-stage Kc exceeds 0.45; a Kc <= 0.45 is returned unadjusted.
C5_LateAdjustIff ==
    (Evaluated /\ ret.status = "ok" /\ ret.stage = "Late") =>
        IF FGt(ret.kc_org, Fin(45, 100))
        THEN ret.adjusted
        ELSE ret.kc = ret.kc_org

\* C6: 100 times every returned Kc is an integer.
C6_TwoDecimals ==
    (Evaluated /\ ret.status = "ok" /\ ret.kc.k = "fin") => FMul(ret.kc, Int2F(100)).d = 1

\* The call of the current state made again with humidity rh.
AgainWithRh(rh) ==
    IF IsGdd
    THEN {crop_coefficient_gdd(Int2F(call.pos), call.cc, call.wind_speed, rh, call.crop_height)}
    ELSE IF IsGs
    THEN {crop_coefficient_gs(b, call.planting_date, call.date, call.cc,
                              call.wind_speed, rh, call.crop_height) : b \in Builds}
    ELSE {coefficient_from_date(b, call.cc, call.date, call.wind_speed, rh,
                                call.crop_height) : b \in Builds}

\* C7: an evaluation with humidity f < 1.0 returns what the same evaluation
\* returns with humidity 100*f.
C7_FractionAsPercent ==
    (Evaluated /\ call.rh_min.k = "fin" /\ FLt(call.rh_min, Int2F(1)))
        => ret \in AgainWithRh(FMul(call.rh_min, Int2F(100)))

\* C8: for a date before planting crop_coefficient_gs and coefficient_from_date
\* select the initial stage and return kc_i.
C8_BeforePlanting ==
    ((IsGs \/ IsFromDate) /\ Position < 0) =>
        /\ ret.status = "ok"
        /\ ret.stage = "Initial"
        /\ ret.kc = call.cc.initial_end_kc.kc

\* C9: at wind 2.0 and humidity 45.0 an evaluation that goes through adjust_kc
\* returns the unadjusted Kc, whatever the (non-negative) canopy height.
C9_ZeroAtReference ==
    (Evaluated /\ ret.status = "ok" /\ ret.adjusted /\ RefWind /\ RefRh)
        => ret.kc = ret.kc_org

C9_Witness ==
    /\ IsGdd /\ ret.stage = "Mid" /\ ret.adjusted
    /\ call.wind_speed = NoneF /\ call.rh_min = Int2F(45) /\ call.crop_height = Int2F(3)
    /\ call.cc.development_end_kc[2] # call.cc.mid_end_kc[2]
    /\ ret.kc = Fin(2305, 2000)

IMax(a, b) == IF a >= b THEN a ELSE b
IMin(a, b) == IF a <= b THEN a ELSE b

\* C10: calculate_gdd is the reference computation: M = max_temp in [0, 30],
\* m = min_temp in [-5, 30], b = max(base_temp, 0), M' = max(M, m),
\* avg = (M' + m)/2, result 0 if avg <= b and avg - b otherwise.
C10_GddReference ==
    call.op = "calculate_gdd" =>
        LET M == IMin(IMax(call.max_temp, 0), 30)
            m == IMin(IMax(call.min_temp, -5), 30)
            b == IMax(call.base_temp, 0)
            twice_avg == IMax(M, m) + m
        IN  /\ ret.status = "ok"
            /\ ret.kc = IF twice_avg <= 2 * b THEN Fin(0, 1) ELSE Fin(twice_avg - 2 * b, 2)

C10_Witness ==
    /\ call.op = "calculate_gdd"
    /\ call.max_temp = 10 /\ call.min_temp = 15 /\ call.base_temp = 5
    /\ ret.kc = Int2F(10)


\* C11: the result of calculate_gdd is never negative (nor NaN or infinite),
\* for negative, inverted and very large temperatures alike.
C11_GddNonNegative ==
    call.op = "calculate_gdd" => (ret.status = "ok" /\ ret.kc.k = "fin" /\ ret.kc.n >= 0)

C11_Witness ==
    /\ call.op = "calculate_gdd"
    /\ call.max_temp = -10 /\ call.min_temp = 1000000 /\ call.base_temp = 10
    /\ ret.kc = Int2F(20)


KcAllowed == \A i \in 1..4 : ~ExceedsTwo(call.kc[i])
SomeNegative == \E i \in 1..4 : call.t[i] < 0

\* C12 (as stated): CropCoefficientsGs::new fails on a negative threshold, and
\* CropCoefficientsGdd::new checks no threshold sign: with all Kc <= 2.0 it
\* constructs the profile, a negative threshold included.
C12_AsStated ==
    /\ (call.op = "CropCoefficientsGs::new" /\ SomeNegative) => ret.status = "panic"
    /\ (call.op = "CropCoefficientsGdd::new" /\ KcAllowed)
           => (ret.status # "panic" /\ cc.kind = "gdd")

\* C12 (amended): it is CropCoefficientsGdd::new that fails on a negative
\* threshold; CropCoefficientsGs::new checks no threshold (they are u16) and
\* constructs every profile whose Kc are all <= 2.0.
C12_ThresholdSign ==
    /\ (call.op = "CropCoefficientsGdd::new" /\ SomeNegative)
           => (ret.status = "panic" /\ cc = NoProfile)
    /\ (call.op = "CropCoefficientsGdd::new" /\ KcAllowed /\ ~SomeNegative)
           => (ret.status # "panic" /\ cc.kind = "gdd")
    /\ (call.op = "CropCoefficientsGs::new" /\ KcAllowed)
           => (ret.status # "panic" /\ cc.kind = "gs" /\ Thresholds(cc) = call.t)

C12_Witness ==
    /\ call.op = "CropCoefficientsGdd::new"
    /\ call.t[1] = -1 /\ call.t[4] = MaxThreshold
    /\ KcAllowed
    /\ ret.status = "panic"


IsLoad == call.op = "load_crop_coefficients"
Entries == call.data.crops
\* A table whose every entry has four stage lengths >= 0 summing to at most
\* u16::MAX and Kc <= 2.0.
PlainEntry(crop) ==
    LET d == crop.growth_stages_days
    IN  /\ Len(d) = 4 /\ \A i \in 1..4 : d[i] >= 0
        /\ d[1] + d[2] + d[3] + d[4] < TwoPow16
        /\ ~ExceedsTwo(crop.k_ini) /\ ~ExceedsTwo(crop.k_mid) /\ ~ExceedsTwo(crop.k_end)
PrefixSums(d) == <<d[1], d[1] + d[2], d[1] + d[2] + d[3], d[1] + d[2] + d[3] + d[4]>>

\* C13: load_crop_coefficients returns one profile per crop entry of the
\* configuration (N entries yield N profiles), and each entry has its profile,
\* whose thresholds are the prefix sums of the entry's growth_stages_days.
C13_RoundTrip ==
    (IsLoad /\ call.data.readable /\ \A key \in DOMAIN Entries : PlainEntry(Entries[key]))
        => /\ ret.status = "ok"
           /\ Cardinality(DOMAIN ret.profiles) = Cardinality(DOMAIN Entries)
           /\ \A key \in DOMAIN Entries :
                \E n \in DOMAIN ret.profiles :
                    Thresholds(ret.profiles[n]) = PrefixSums(Entries[key].growth_stages_days)


\* The late stage has length zero and the position lies past it.
PastZeroLengthLate ==
    LET t == Thresholds(call.cc)
    IN  NonDecreasing(t) /\ t[3] = t[4] /\ Position > t[4]

\* C14: a zero-length stage causes no division error: on a profile whose
\* threshold equals the previous one (here t_l = t_m) every evaluator returns
\* a finite Kc, the stage's end Kc before adjustment.
C14_ZeroLengthStage ==
    (Evaluated /\ PastZeroLengthLate)
        => (ret.status = "ok" /\ ret.kc.k = "fin" /\ ret.kc_org = StageKc(call.cc)[4])


\* The GDD-indexed profile of the same four (threshold, kc) pairs.
SamePairsGdd(c) ==
    CropCoefficientsGdd_new(c.crop_name,
        <<Int2F(c.initial_end_kc.days), c.initial_end_kc.kc>>,
        <<Int2F(c.development_end_kc.days), c.development_end_kc.kc>>,
        <<Int2F(c.mid_end_kc.days), c.mid_end_kc.kc>>,
        <<Int2F(c.late_end_kc.days), c.late_end_kc.kc>>)

StrictlyInsideDevOrMid ==
    LET t == Thresholds(call.cc)
    IN  \/ t[1] < Position /\ Position < t[2]
        \/ t[2] < Position /\ Position < t[3]

\* Wind, humidity and height are all passed, so no evaluator's default applies.
OverridesGiven ==
    call.wind_speed # NoneF /\ call.rh_min # NoneF /\ call.crop_height # NoneF

\* C15: for the same four pairs, the same wind, humidity and height, and d
\* elapsed days equal to the cumulative GDD, crop_coefficient_gs returns the Kc
\* crop_coefficient_gdd returns, at positions strictly inside the Development
\* and Mid stages.
C15_SameInterpolation ==
    (IsGs /\ StrictlyInsideDevOrMid /\ OverridesGiven)
        => /\ ret.status = "ok"
           /\ ret.kc = crop_coefficient_gdd(Int2F(Position), SamePairsGdd(call.cc),
                           call.wind_speed, call.rh_min, call.crop_height).kc


\* A call of crop_coefficient_gdd in the late stage of a profile with
\* t_m < t_l and kc_m > kc_l, at a position up to t_l.
InDescendingLate ==
    /\ IsGdd /\ ret.status = "ok"
    /\ LET t == Thresholds(call.cc)
           kc == StageKc(call.cc)
       IN  t[3] < t[4] /\ FGt(kc[3], kc[4]) /\ t[3] < call.pos /\ call.pos <= t[4]

\* C16: in the late stage the unadjusted Kc of crop_coefficient_gdd descends
\* from kc_m toward kc_l: it is at most kc_m, not above its value at any earlier
\* late-stage position, and equals kc_l at position = t_l.
C16_LateDescends ==
    InDescendingLate
        => LET t == Thresholds(call.cc)
               kc == StageKc(call.cc)
               c == call.cc
           IN  /\ FLe(ret.kc_org, kc[3])
               /\ \A q \in (t[3] + 1)..call.pos :
                      FLe(ret.kc_org, GddLateKc(Int2F(q), c.mid_end_kc, c.late_end_kc))
               /\ call.pos = t[4] => ret.kc_org = kc[4]


\* C17: coefficient_from_date measures the elapsed days from the profile's
\* planting_date, and with no crop_height override the adjustment of the Mid
\* and Late stages is computed with the profile's crop_height.
C17_ProfileBound ==
    (IsFromDate /\ ret.status = "ok")
        => /\ ret.stage = TableStage(call.date - call.cc.planting_date, Thresholds(call.cc))
           /\ (call.crop_height = NoneF /\ ret.stage \in {"Mid", "Late"})
                  => ret.kc = adjust_kc(ret.kc_org, UnwrapOr(call.wind_speed, Int2F(2)),
                                        UnwrapOr(call.rh_min, Int2F(45)), call.cc.crop_height)

====
